---- MODULE Spec2Model ----
(***************************************************************************)
(* Model of scripts/convert-spleeter-onnx.py: the conversion of a Spleeter *)
(* frozen TensorFlow graph into one ONNX file per instrument.              *)
(*                                                                         *)
(* Tensors are modelled by their shape (a sequence of dimensions) and, once*)
(* placed in a state_dict, by the frozen-graph name they were read from.   *)
(* Tensor names are real strings, built the way the f-strings build them.  *)
(***************************************************************************)
EXTENDS Integers, Sequences, FiniteSets, TLC

VARIABLES
    pc,             \* position of the running function
    model,          \* args.model
    fs,             \* which of the files main() looks at exist (tar0,
                    \* frozen0: which existed when main() started)
    disk,           \* what the checkpoint / frozen_model.pb on disk holds
    graph,          \* the loaded frozen graph: tensor name -> shape
    idx,            \* the instrument index being converted
    unet,           \* the UNet's state: state_dict key -> [shape, src]
    requested,      \* names passed to get_param by the last convert_weights
    raised,         \* the exception that ended the function, or "none"
    exported,       \* instrument name -> metadata_props of its saved .onnx
    traced,         \* metadata_props of the last freshly traced graph
    log,            \* the stages main() has performed, in order
    exit_status,    \* the process's exit status, -1 while running
    activation,     \* UNet.activation of the forward pass
    output_logit,   \* UNet.output_logit of the forward pass
    x,              \* forward: shape of the current tensor [n, c, h, w]
    in_x,           \* forward: shape of the permuted input
    skips,          \* forward: shapes of conv1..conv6
    applied         \* forward: the operations applied, stage by stage

vars == <<pc, model, fs, disk, graph, idx, unet, requested, raised, exported,
          traced, log, exit_status, activation, output_logit, x, in_x, skips,
          applied>>

driverVars == <<model, fs, disk, exported, traced, log, exit_status>>
convertVars == <<graph, idx, unet, requested>>
forwardVars == <<activation, output_logit, x, in_x, skips, applied>>

(***************************************************************************)
(* Bounds of the model.                                                    *)
(***************************************************************************)
\* instrument indices 0..MaxInstrumentIdx are given to convert_weights
MaxInstrumentIdx == 3
\* a frozen graph holds the tensors of 0..MaxGraphInstruments instruments
MaxGraphInstruments == 3
\* a freshly traced ONNX graph carries 0..MaxTracedProps metadata entries
MaxTracedProps == 2
\* forward inputs are up to MaxTrim rows / columns smaller than 512 x 1024
MaxTrim == 2
\* forward inputs hold 1..MaxSplits splits
MaxSplits == 2

(***************************************************************************)
(* CONFIGS                                                                 *)
(***************************************************************************)
CONFIGS ==
    ("2stems" :> [instruments |-> <<"vocals", "accompaniment">>,
                  activation |-> "leaky_relu", output_mode |-> "sigmoid"]) @@
    ("4stems" :> [instruments |-> <<"vocals", "drums", "bass", "other">>,
                  activation |-> "elu", output_mode |-> "sigmoid"]) @@
    ("5stems" :> [instruments |-> <<"vocals", "piano", "drums", "bass", "other">>,
                  activation |-> "elu", output_mode |-> "softmax"])

(***************************************************************************)
(* str(n) / f"{n}": an integer in decimal.                                 *)
(***************************************************************************)
Digits == <<"0", "1", "2", "3", "4", "5", "6", "7", "8", "9">>

RECURSIVE Str(_)
Str(n) == IF n < 10 THEN Digits[n + 1]
          ELSE Str(n \div 10) \o Digits[(n % 10) + 1]

RECURSIVE Flatten(_)
Flatten(ss) == IF ss = <<>> THEN <<>> ELSE Head(ss) \o Flatten(Tail(ss))

Range(s) == {s[i] : i \in 1..Len(s)}

(***************************************************************************)
(* UNet.__init__: the layers and the state_dict they declare.              *)
(***************************************************************************)
Conv2d(name, cin, cout, k, stride, padding, dilation) ==
    [name |-> name, kind |-> "Conv2d", cin |-> cin, cout |-> cout, k |-> k,
     stride |-> stride, padding |-> padding, dilation |-> dilation]

ConvTranspose2d(name, cin, cout, k, stride) ==
    [name |-> name, kind |-> "ConvTranspose2d", cin |-> cin, cout |-> cout,
     k |-> k, stride |-> stride, padding |-> 0, dilation |-> 1]

BatchNorm2d(name, c) ==
    [name |-> name, kind |-> "BatchNorm2d", cin |-> c, cout |-> c, k |-> 0,
     stride |-> 0, padding |-> 0, dilation |-> 0]

Layers == <<
    Conv2d("conv", 2, 16, 5, 2, 0, 1),      BatchNorm2d("bn", 16),
    Conv2d("conv1", 16, 32, 5, 2, 0, 1),    BatchNorm2d("bn1", 32),
    Conv2d("conv2", 32, 64, 5, 2, 0, 1),    BatchNorm2d("bn2", 64),
    Conv2d("conv3", 64, 128, 5, 2, 0, 1),   BatchNorm2d("bn3", 128),
    Conv2d("conv4", 128, 256, 5, 2, 0, 1),  BatchNorm2d("bn4", 256),
    Conv2d("conv5", 256, 512, 5, 2, 0, 1),
    ConvTranspose2d("up1", 512, 256, 5, 2), BatchNorm2d("bn5", 256),
    ConvTranspose2d("up2", 512, 128, 5, 2), BatchNorm2d("bn6", 128),
    ConvTranspose2d("up3", 256, 64, 5, 2),  BatchNorm2d("bn7", 64),
    ConvTranspose2d("up4", 128, 32, 5, 2),  BatchNorm2d("bn8", 32),
    ConvTranspose2d("up5", 64, 16, 5, 2),   BatchNorm2d("bn9", 16),
    ConvTranspose2d("up6", 32, 1, 5, 2),    BatchNorm2d("bn10", 1),
    Conv2d("up7", 1, 2, 4, 1, 3, 2) >>

Layer(name) == CHOOSE l \in Range(Layers) : l.name = name

\* the parameters and buffers a layer registers, with their shapes
LayerParams(l) ==
    IF l.kind = "Conv2d"
    THEN << <<l.name \o ".weight", <<l.cout, l.cin, l.k, l.k>> >>,
            <<l.name \o ".bias", <<l.cout>> >> >>
    ELSE IF l.kind = "ConvTranspose2d"
    THEN << <<l.name \o ".weight", <<l.cin, l.cout, l.k, l.k>> >>,
            <<l.name \o ".bias", <<l.cout>> >> >>
    ELSE << <<l.name \o ".weight", <<l.cout>> >>,
            <<l.name \o ".bias", <<l.cout>> >>,
            <<l.name \o ".running_mean", <<l.cout>> >>,
            <<l.name \o ".running_var", <<l.cout>> >>,
            <<l.name \o ".num_batches_tracked", <<>> >> >>

AllParams == Flatten([i \in 1..Len(Layers) |-> LayerParams(Layers[i])])

StateDictKeys == {p[1] : p \in Range(AllParams)}

ExpectedShape(key) == (CHOOSE p \in Range(AllParams) : p[1] = key)[2]

\* a freshly constructed UNet: every entry holds its initial value
NewUNet == [key \in StateDictKeys |-> [shape |-> ExpectedShape(key), src |-> "init"]]

(***************************************************************************)
(* The frozen graph on disk.  TensorFlow names the ops of one kind in      *)
(* creation order: base, base_1, base_2, ...; every instrument creates 7   *)
(* Conv2D, 6 Conv2DTranspose and 12 BatchNormalization ops (the sixth      *)
(* normalization, after the bottleneck convolution, feeds nothing).        *)
(***************************************************************************)
TFName(base, g) == IF g = 0 THEN base ELSE base \o "_" \o Str(g)

TFConvLayers == <<"conv", "conv1", "conv2", "conv3", "conv4", "conv5", "up7">>
TFTransposeLayers == <<"up1", "up2", "up3", "up4", "up5", "up6">>
TFNormChannels == <<16, 32, 64, 128, 256, 512, 256, 128, 64, 32, 16, 1>>

\* the constants of instrument k, as <<name, shape>> pairs
TFInstrument(k) ==
    Flatten([j \in 1..Len(TFConvLayers) |->
        LET l == Layer(TFConvLayers[j])
            n == TFName("conv2d", k * Len(TFConvLayers) + (j - 1))
        IN << <<n \o "/kernel", <<l.k, l.k, l.cin, l.cout>> >>,
              <<n \o "/bias", <<l.cout>> >> >>])
    \o
    Flatten([j \in 1..Len(TFTransposeLayers) |->
        LET l == Layer(TFTransposeLayers[j])
            n == TFName("conv2d_transpose", k * Len(TFTransposeLayers) + (j - 1))
        IN << <<n \o "/kernel", <<l.k, l.k, l.cout, l.cin>> >>,
              <<n \o "/bias", <<l.cout>> >> >>])
    \o
    Flatten([j \in 1..Len(TFNormChannels) |->
        LET c == TFNormChannels[j]
            n == TFName("batch_normalization", k * Len(TFNormChannels) + (j - 1))
        IN << <<n \o "/gamma", <<c>> >>, <<n \o "/beta", <<c>> >>,
              <<n \o "/moving_mean", <<c>> >>,
              <<n \o "/moving_variance", <<c>> >> >>])

\* <<name, value>> pairs as a function
AsGraph(pairs) ==
    [nm \in {p[1] : p \in Range(pairs)} |->
        pairs[CHOOSE i \in 1..Len(pairs) : pairs[i][1] = nm][2]]

\* the frozen graph of a checkpoint that holds instruments 0..n-1
RECURSIVE TFGraph(_)
TFGraph(n) ==
    IF n = 0 THEN <<>>
    ELSE AsGraph(TFInstrument(n - 1)) @@ TFGraph(n - 1)

NoFault == [kind |-> "none", name |-> ""]

\* a graph, possibly with one constant missing, of another size or rank
Faulty(g, fault) ==
    CASE fault.kind = "none" -> g
      [] fault.kind = "missing" ->
            [n \in DOMAIN g \ {fault.name} |-> g[n]]
      [] fault.kind = "shape" ->
            [g EXCEPT ![fault.name] = [@ EXCEPT ![1] = @ + 1]]
      [] fault.kind = "rank" ->
            [g EXCEPT ![fault.name] = Append(@, 1)]

FrozenGraph(d) == Faulty(TFGraph(d.instruments), d.fault)

NoGraph == <<>>

(***************************************************************************)
(* get_param and convert_weights                                           *)
(***************************************************************************)
\* get_param finds a Const op of that name, or raises ValueError
GetParamFound(g, name) == name \in DOMAIN g

\* tensor.permute(3, 2, 0, 1)
Permute3201(shape) == <<shape[4], shape[3], shape[1], shape[2]>>

\* a per-instrument convolution count that is one short
ConvOffsetSix(instrument_idx) == instrument_idx * 6

ConvOffset(instrument_idx) == instrument_idx * 7
BnOffset(instrument_idx) == instrument_idx * 12
TransposeOffset(instrument_idx) == instrument_idx * 6

\* the suffix written for instrument 0 too
FirstNameSuffixed(instrument_idx, base, offset) == base \o "_" \o Str(offset)

\* the name of an instrument's first op of a kind
FirstName(instrument_idx, base, offset) ==
    IF instrument_idx = 0 THEN base ELSE base \o "_" \o Str(offset)

\* the decoder normalizations without the skipped one
Bn5IdxNoSkip(bn_offset) == bn_offset + 5

\* bn5_idx = bn_offset + 5 + 1
Bn5Idx(bn_offset) == bn_offset + 5 + 1

\* state_dict[key] = get_param(graph, name), permuted or not
Req(key, name, permute) == [key |-> key, name |-> name, permute |-> permute]

ConvReqs(layer, op) ==
    << Req(layer \o ".weight", op \o "/kernel", TRUE),
       Req(layer \o ".bias", op \o "/bias", FALSE) >>

BnReqs(layer, op) ==
    << Req(layer \o ".weight", op \o "/gamma", FALSE),
       Req(layer \o ".bias", op \o "/beta", FALSE),
       Req(layer \o ".running_mean", op \o "/moving_mean", FALSE),
       Req(layer \o ".running_var", op \o "/moving_variance", FALSE) >>

\* the get_param calls of convert_weights, in program order
Requests(instrument_idx) ==
    LET conv_offset == ConvOffset(instrument_idx)
        bn_offset == BnOffset(instrument_idx)
        transpose_offset == TransposeOffset(instrument_idx)
        conv_name == FirstName(instrument_idx, "conv2d", conv_offset)
        bn_name == FirstName(instrument_idx, "batch_normalization", bn_offset)
        t_name == FirstName(instrument_idx, "conv2d_transpose", transpose_offset)
        bn5_idx == Bn5Idx(bn_offset)
        final_conv_idx == conv_offset + 6
        Encoder(i) ==
            ConvReqs("conv" \o Str(i), "conv2d_" \o Str(conv_offset + i))
            \o (IF i < 5
                THEN BnReqs("bn" \o Str(i),
                            "batch_normalization_" \o Str(bn_offset + i))
                ELSE <<>>)
        Decoder(i) ==
            ConvReqs("up" \o Str(i + 1),
                     "conv2d_transpose_" \o Str(transpose_offset + i))
            \o BnReqs("bn" \o Str(5 + i),
                      "batch_normalization_" \o Str(bn5_idx + i))
    IN ConvReqs("conv", conv_name) \o BnReqs("bn", bn_name)
       \o Flatten([i \in 1..5 |-> Encoder(i)])
       \o ConvReqs("up1", t_name)
       \o BnReqs("bn5", "batch_normalization_" \o Str(bn5_idx))
       \o Flatten([i \in 1..5 |-> Decoder(i)])
       \o ConvReqs("up7", "conv2d_" \o Str(final_conv_idx))

\* what one state_dict[key] = get_param(...)[.permute(...)] statement raises
Raises(g, r) ==
    IF ~GetParamFound(g, r.name) THEN "ValueError"
    ELSE IF r.permute /\ Len(g[r.name]) # 4 THEN "RuntimeError"
    ELSE "none"

\* the statement of convert_weights that assigns state_dict[key] (every key
\* is assigned by at most one statement), 0 when none does
AssignedAt ==
    LET reqs == Requests(0) IN
    [key \in StateDictKeys |->
        IF \E i \in 1..Len(reqs) : reqs[i].key = key
        THEN CHOOSE i \in 1..Len(reqs) : reqs[i].key = key
        ELSE 0]

\* a transfer that leaves the slot of a missing tensor alone and goes on
TransferSkipMissing(g, reqs, sd) ==
    LET found == {i \in 1..Len(reqs) : GetParamFound(g, reqs[i].name)} IN
    [raised |-> "none",
     state_dict |-> [key \in DOMAIN sd |->
                        IF AssignedAt[key] \in found
                        THEN [shape |-> sd[key].shape,
                              src |-> reqs[AssignedAt[key]].name]
                        ELSE sd[key]],
     calls |-> Len(reqs)]

\* the assignments to state_dict, in program order, up to the first
\* statement that raises
Transfer(g, reqs, sd) ==
    LET bad == {i \in 1..Len(reqs) : Raises(g, reqs[i]) # "none"}
        stop == IF bad = {} THEN Len(reqs) + 1
                ELSE CHOOSE i \in bad : \A j \in bad : i <= j
        value(r) == [shape |-> IF r.permute THEN Permute3201(g[r.name])
                               ELSE g[r.name],
                     src |-> r.name]
    IN [raised |-> IF bad = {} THEN "none" ELSE Raises(g, reqs[stop]),
        state_dict |-> [key \in DOMAIN sd |->
                           IF AssignedAt[key] \in 1..(stop - 1)
                           THEN value(reqs[AssignedAt[key]])
                           ELSE sd[key]],
        calls |-> IF bad = {} THEN Len(reqs) ELSE stop]

\* unet.load_state_dict(state_dict): entries of the expected shape are
\* copied, and any entry of another shape raises RuntimeError
Mismatched(u, sd) == {key \in DOMAIN u : sd[key].shape # u[key].shape}

LoadStateDict(u, sd) ==
    LET bad == Mismatched(u, sd) IN
    [raised |-> IF bad = {} THEN "none" ELSE "RuntimeError",
     unet |-> [key \in DOMAIN u |-> IF key \in bad THEN u[key] ELSE sd[key]]]

ConvertWeights(g, u, instrument_idx) ==
    LET reqs == Requests(instrument_idx)
        t == Transfer(g, reqs, u)
        names == [i \in 1..t.calls |-> reqs[i].name]
        l == LoadStateDict(u, t.state_dict)
    IN IF t.raised # "none"
       THEN [raised |-> t.raised, unet |-> u, requested |-> names]
       ELSE [raised |-> l.raised, unet |-> l.unet, requested |-> names]

(***************************************************************************)
(* SpecConvert: convert_weights called on any instrument index and any     *)
(* frozen graph.                                                           *)
(***************************************************************************)
Faults(n) ==
    {NoFault} \cup
    [kind : {"missing", "shape", "rank"}, name : DOMAIN TFGraph(n)]

DiskContents ==
    UNION {[instruments : {n}, fault : Faults(n)] : n \in 0..MaxGraphInstruments}

NoForward ==
    /\ activation = "none"
    /\ output_logit = FALSE
    /\ x = <<>>
    /\ in_x = <<>>
    /\ skips = <<>>
    /\ applied = <<>>

NoDriver ==
    /\ model = "none"
    /\ fs = [tar |-> FALSE, extract_dir |-> FALSE, frozen |-> FALSE,
             tar0 |-> FALSE, frozen0 |-> FALSE]
    /\ exported = <<>>
    /\ traced = <<>>
    /\ log = <<>>
    /\ exit_status = -1

InitConvert ==
    /\ pc = "convert_weights"
    /\ disk \in DiskContents
    /\ graph = FrozenGraph(disk)
    /\ idx \in 0..MaxInstrumentIdx
    /\ unet = NewUNet
    /\ requested = <<>>
    /\ raised = "none"
    /\ NoDriver
    /\ NoForward

CallConvertWeights ==
    /\ pc = "convert_weights"
    /\ LET r == ConvertWeights(graph, unet, idx) IN
        /\ unet' = r.unet
        /\ requested' = r.requested
        /\ raised' = r.raised
        /\ pc' = IF r.raised = "none" THEN "returned" ELSE "raised"
    /\ UNCHANGED <<graph, idx, disk>>
    /\ UNCHANGED <<model, fs, exported, traced, log, exit_status>>
    /\ UNCHANGED forwardVars

NextConvert == CallConvertWeights

SpecConvert == InitConvert /\ [][NextConvert]_vars

(***************************************************************************)
(* export_to_onnx: the metadata of the saved file.                         *)
(***************************************************************************)
Prop(key, value) == [key |-> key, value |-> value]

\* what a tracer may have left in metadata_props
TracedEntries == {Prop("model_type", "pytorch"), Prop("producer", "torch")}

TracedProps == UNION {[1..n -> TracedEntries] : n \in 0..MaxTracedProps}

\* an if in place of the while: one entry is popped
PopOnce(props) ==
    IF Len(props) # 0 THEN SubSeq(props, 1, Len(props) - 1) ELSE props

\* while len(onnx_model.metadata_props): onnx_model.metadata_props.pop()
RECURSIVE PopAll(_)
PopAll(props) ==
    IF Len(props) # 0 THEN PopAll(SubSeq(props, 1, Len(props) - 1)) ELSE props

\* the dict of the six entries, in insertion order
NewProps(model_name, stem_name, num_stems) ==
    << Prop("model_type", "spleeter"),
       Prop("sample_rate", "44100"),
       Prop("version", "1"),
       Prop("stems", Str(num_stems)),
       Prop("stem_name", stem_name),
       Prop("model_name", model_name \o ".tar.gz") >>

\* metadata_props after the loop that clears and the loop that adds
AddMetadata(props, model_name, stem_name, num_stems) ==
    PopAll(props) \o NewProps(model_name, stem_name, num_stems)

(***************************************************************************)
(* main                                                                    *)
(***************************************************************************)
Instruments(m) == CONFIGS[m].instruments

\* if not os.path.exists(tar_name)
NeedDownload(f) == ~f.tar

\* if not os.path.exists(extract_dir)
NeedExtract(f) == ~f.extract_dir

\* freezing whether or not the frozen graph is there
AlwaysFreeze(f) == TRUE

\* if not os.path.exists(frozen_path)
NeedFreeze(f) == ~f.frozen

\* a handler that catches every other error and goes to the next instrument
OnConvertContinue(exc) ==
    IF exc = "none" THEN "export"
    ELSE IF exc = "ValueError" THEN "exit"
    ELSE "next"

\* try: convert_weights(...) except ValueError: ... sys.exit(1); any other
\* exception leaves main uncaught
OnConvert(exc) ==
    IF exc = "none" THEN "export"
    ELSE IF exc = "ValueError" THEN "exit"
    ELSE "crashed"

\* an export wrapped in a try that goes to the next instrument
OnExportErrorContinue == "next"

\* export_to_onnx is called outside any try: its exception leaves main
OnExportError == "crashed"

Stage(name, i) == [stage |-> name, idx |-> i]

\* the process ends with status 1 on sys.exit(1) and on an uncaught exception
StatusAt(p) == IF p \in {"exit", "crashed"} THEN 1 ELSE -1

\* the tensors the driver's frozen graph may lack or hold in another shape:
\* for each instrument a first, a last and a never requested tensor
DriverFaults(n) ==
    {NoFault} \cup
    [kind : {"missing", "shape", "rank"},
     name : UNION {{TFName("conv2d", k * 7) \o "/kernel",
                    TFName("batch_normalization", k * 12 + 5) \o "/gamma",
                    TFName("conv2d", k * 7 + 6) \o "/bias"} : k \in 0..(n - 1)}]

Init ==
    /\ pc = "acquire"
    /\ model \in DOMAIN CONFIGS
    /\ fs \in {f \in [tar : BOOLEAN, extract_dir : BOOLEAN, frozen : BOOLEAN,
                      tar0 : BOOLEAN, frozen0 : BOOLEAN] :
                 /\ f.frozen => f.extract_dir
                 /\ f.tar0 = f.tar
                 /\ f.frozen0 = f.frozen}
    /\ disk \in UNION {[instruments : {n}, fault : DriverFaults(n)] :
                          n \in 0..Len(Instruments(model))}
    /\ graph = NoGraph
    /\ idx = 0
    /\ unet = NewUNet
    /\ requested = <<>>
    /\ raised = "none"
    /\ exported = <<>>
    /\ traced = <<>>
    /\ log = <<>>
    /\ exit_status = -1
    /\ NoForward

Crash(exc) ==
    /\ raised' = exc
    /\ pc' = "crashed"
    /\ exit_status' = 1

\* Step 1: urllib.request.urlretrieve(config["url"], tar_name)
Download ==
    /\ pc = "acquire"
    /\ NeedDownload(fs)
    /\ log' = Append(log, Stage("download", 0))
    /\ \/ /\ fs' = [fs EXCEPT !.tar = TRUE]
          /\ pc' = "extract"
          /\ UNCHANGED <<raised, exit_status>>
       \/ /\ Crash("URLError")
          /\ UNCHANGED fs
    /\ UNCHANGED <<model, disk, exported, traced>>
    /\ UNCHANGED convertVars
    /\ UNCHANGED forwardVars

\* print(f"Using cached {tar_name}")
UseCached ==
    /\ pc = "acquire"
    /\ ~NeedDownload(fs)
    /\ pc' = "extract"
    /\ UNCHANGED <<raised, driverVars>>
    /\ UNCHANGED convertVars
    /\ UNCHANGED forwardVars

\* Step 2: os.makedirs(extract_dir); tar.extractall(extract_dir)
\* (the archive holds the checkpoint files, not frozen_model.pb)
Extract ==
    /\ pc = "extract"
    /\ NeedExtract(fs)
    /\ fs' = [fs EXCEPT !.extract_dir = TRUE]
    /\ log' = Append(log, Stage("extract", 0))
    /\ \/ /\ pc' = "freeze"
          /\ UNCHANGED <<raised, exit_status>>
       \/ Crash("TarError")
    /\ UNCHANGED <<model, disk, exported, traced>>
    /\ UNCHANGED convertVars
    /\ UNCHANGED forwardVars

SkipExtract ==
    /\ pc = "extract"
    /\ ~NeedExtract(fs)
    /\ pc' = "freeze"
    /\ UNCHANGED <<raised, driverVars>>
    /\ UNCHANGED convertVars
    /\ UNCHANGED forwardVars

\* Step 3: freeze_graph(extract_dir, output_nodes, frozen_path)
Freeze ==
    /\ pc = "freeze"
    /\ NeedFreeze(fs)
    /\ log' = Append(log, Stage("freeze", 0))
    /\ \/ /\ fs' = [fs EXCEPT !.frozen = TRUE]
          /\ pc' = "load"
          /\ UNCHANGED <<raised, exit_status>>
       \/ /\ Crash("FreezeError")
          /\ UNCHANGED fs
    /\ UNCHANGED <<model, disk, exported, traced>>
    /\ UNCHANGED convertVars
    /\ UNCHANGED forwardVars

SkipFreeze ==
    /\ pc = "freeze"
    /\ ~NeedFreeze(fs)
    /\ pc' = "load"
    /\ UNCHANGED <<raised, driverVars>>
    /\ UNCHANGED convertVars
    /\ UNCHANGED forwardVars

\* graph = load_frozen_graph(frozen_path)
Load ==
    /\ pc = "load"
    /\ graph' = FrozenGraph(disk)
    /\ log' = Append(log, Stage("load", 0))
    /\ pc' = "loop"
    /\ UNCHANGED <<idx, unet, requested, raised>>
    /\ UNCHANGED <<model, fs, disk, exported, traced, exit_status>>
    /\ UNCHANGED forwardVars

\* unet = UNet(...); try: unet = convert_weights(graph, unet, idx) ...
Convert ==
    /\ pc = "loop"
    /\ idx < Len(Instruments(model))
    /\ LET r == ConvertWeights(graph, NewUNet, idx) IN
        /\ unet' = r.unet
        /\ requested' = r.requested
        /\ raised' = r.raised
        /\ pc' = OnConvert(r.raised)
        /\ exit_status' = StatusAt(OnConvert(r.raised))
    /\ log' = Append(log, Stage("convert", idx))
    /\ traced' = <<>>
    /\ UNCHANGED <<model, fs, disk, exported, graph, idx>>
    /\ UNCHANGED forwardVars

\* torch.onnx.export(model, x, output_path, ...): traces a forward pass and
\* writes the file, or fails
Trace ==
    /\ pc = "export"
    /\ log' = Append(log, Stage("export", idx))
    /\ \/ /\ traced' \in TracedProps
          /\ exported' = (Instruments(model)[idx + 1] :> traced') @@ exported
          /\ pc' = "metadata"
          /\ UNCHANGED <<raised, exit_status>>
       \/ /\ raised' = "ExportError"
          /\ pc' = OnExportError
          /\ exit_status' = StatusAt(OnExportError)
          /\ UNCHANGED <<traced, exported>>
    /\ UNCHANGED <<model, fs, disk>>
    /\ UNCHANGED convertVars
    /\ UNCHANGED forwardVars

\* onnx.load; clear metadata_props; add the six; onnx.save, which may fail
Metadata ==
    /\ pc = "metadata"
    /\ \/ /\ exported' = [exported EXCEPT ![Instruments(model)[idx + 1]] =
                 AddMetadata(traced, model, Instruments(model)[idx + 1],
                             Len(Instruments(model)))]
          /\ pc' = "next"
          /\ UNCHANGED <<raised, exit_status>>
       \/ /\ raised' = "ExportError"
          /\ pc' = OnExportError
          /\ exit_status' = StatusAt(OnExportError)
          /\ UNCHANGED exported
    /\ UNCHANGED <<model, fs, disk, traced, log>>
    /\ UNCHANGED convertVars
    /\ UNCHANGED forwardVars

\* for idx, instrument in enumerate(instruments): the next iteration
ForNext ==
    /\ pc = "next"
    /\ idx' = idx + 1
    /\ pc' = "loop"
    /\ traced' = <<>>
    /\ UNCHANGED <<graph, unet, requested, raised>>
    /\ UNCHANGED <<model, fs, disk, exported, log, exit_status>>
    /\ UNCHANGED forwardVars

\* the loop is exhausted: main returns and the process exits with status 0
Finish ==
    /\ pc = "loop"
    /\ idx = Len(Instruments(model))
    /\ pc' = "done"
    /\ exit_status' = 0
    /\ UNCHANGED <<raised, model, fs, disk, exported, traced, log>>
    /\ UNCHANGED convertVars
    /\ UNCHANGED forwardVars

Next ==
    \/ Download
    \/ UseCached
    \/ Extract
    \/ SkipExtract
    \/ Freeze
    \/ SkipFreeze
    \/ Load
    \/ Convert
    \/ Trace
    \/ Metadata
    \/ ForNext
    \/ Finish

Spec == Init /\ [][Next]_vars

(***************************************************************************)
(* UNet.forward on tensor shapes [d1, d2, height, width].                  *)
(***************************************************************************)
InputHeight == 512
InputWidth == 1024

\* F.pad(x, (left, right, top, bottom))
Pad(t, left, right, top, bottom) ==
    <<t[1], t[2], t[3] + top + bottom, t[4] + left + right>>

\* the extent a Conv2d layer gives an extent of the input
ConvOut(l, size) ==
    (size + 2 * l.padding - l.dilation * (l.k - 1) - 1) \div l.stride + 1

Conv2dOK(l, t) ==
    /\ t[2] = l.cin
    /\ t[3] + 2 * l.padding >= l.dilation * (l.k - 1) + 1
    /\ t[4] + 2 * l.padding >= l.dilation * (l.k - 1) + 1

Conv2dApply(l, t) == <<t[1], l.cout, ConvOut(l, t[3]), ConvOut(l, t[4])>>

\* the extent a ConvTranspose2d layer gives an extent of the input
ConvTransposeOut(l, size) ==
    (size - 1) * l.stride - 2 * l.padding + l.dilation * (l.k - 1) + 1

ConvTransposeOK(l, t) == t[2] = l.cin

ConvTransposeApply(l, t) ==
    <<t[1], l.cout, ConvTransposeOut(l, t[3]), ConvTransposeOut(l, t[4])>>

\* the length of the slice [1:-1]
SliceSymmetric(size) == IF size >= 2 THEN size - 2 ELSE 0

\* the length of the slice [1:-2] of an extent
Slice(size) == IF size >= 3 THEN size - 3 ELSE 0

\* t[:, :, 1:-2, 1:-2]
Crop(t) == <<t[1], t[2], Slice(t[3]), Slice(t[4])>>

\* torch.cat([a, b], 1)
CatOK(a, b) == a[1] = b[1] /\ a[3] = b[3] /\ a[4] = b[4]

Cat(a, b) == <<a[1], a[2] + b[2], a[3], a[4]>>

BatchNormOK(l, t) == t[2] = l.cin

\* a * b with broadcasting
MulOK(a, b) == \A i \in 1..4 : a[i] = b[i] \/ a[i] = 1 \/ b[i] = 1

Mul(a, b) == [i \in 1..4 |-> IF a[i] = 1 THEN b[i] ELSE a[i]]

\* x.permute(1, 0, 2, 3)
Permute1023(t) == <<t[2], t[1], t[3], t[4]>>

EncAct(act) == IF act = "elu" THEN "elu" ELSE "leaky_relu"

DecAct(act) == IF act = "elu" THEN "elu" ELSE "relu"

\* the six encoder statements: the convolution and normalization of each,
\* and whether the activation is applied
EncoderStages == <<
    [conv |-> "conv", bn |-> "bn", act |-> TRUE],
    [conv |-> "conv1", bn |-> "bn1", act |-> TRUE],
    [conv |-> "conv2", bn |-> "bn2", act |-> TRUE],
    [conv |-> "conv3", bn |-> "bn3", act |-> TRUE],
    [conv |-> "conv4", bn |-> "bn4", act |-> TRUE],
    [conv |-> "conv5", bn |-> "", act |-> FALSE] >>

\* a decoder whose sixth stage is not activated
DecoderStagesNoLastAct == <<
    [up |-> "up1", bn |-> "bn5", skip |-> 0, act |-> TRUE],
    [up |-> "up2", bn |-> "bn6", skip |-> 5, act |-> TRUE],
    [up |-> "up3", bn |-> "bn7", skip |-> 4, act |-> TRUE],
    [up |-> "up4", bn |-> "bn8", skip |-> 3, act |-> TRUE],
    [up |-> "up5", bn |-> "bn9", skip |-> 2, act |-> TRUE],
    [up |-> "up6", bn |-> "bn10", skip |-> 1, act |-> FALSE] >>

\* the six decoder statements: the transposed convolution, the normalization,
\* the encoder output concatenated in front (0: none), and whether
\* self._dec_act is applied
DecoderStages == <<
    [up |-> "up1", bn |-> "bn5", skip |-> 0, act |-> TRUE],
    [up |-> "up2", bn |-> "bn6", skip |-> 5, act |-> TRUE],
    [up |-> "up3", bn |-> "bn7", skip |-> 4, act |-> TRUE],
    [up |-> "up4", bn |-> "bn8", skip |-> 3, act |-> TRUE],
    [up |-> "up5", bn |-> "bn9", skip |-> 2, act |-> TRUE],
    [up |-> "up6", bn |-> "bn10", skip |-> 1, act |-> TRUE] >>

InitForward ==
    /\ pc = "forward"
    /\ model \in DOMAIN CONFIGS
    /\ activation = CONFIGS[model].activation
    /\ output_logit = (CONFIGS[model].output_mode = "softmax")
    /\ \E n \in 1..MaxSplits, h \in (InputHeight - MaxTrim)..InputHeight,
          w \in (InputWidth - MaxTrim)..InputWidth : x = <<2, n, h, w>>
    /\ in_x = <<>>
    /\ skips = <<>>
    /\ applied = <<>>
    /\ raised = "none"
    /\ fs = [tar |-> FALSE, extract_dir |-> FALSE, frozen |-> FALSE,
             tar0 |-> FALSE, frozen0 |-> FALSE]
    /\ disk = [instruments |-> 0, fault |-> NoFault]
    /\ graph = NoGraph
    /\ idx = 0
    /\ unet = NewUNet
    /\ requested = <<>>
    /\ exported = <<>>
    /\ traced = <<>>
    /\ log = <<>>
    /\ exit_status = -1

ForwardRaise ==
    /\ pc' = "raised"
    /\ raised' = "RuntimeError"
    /\ UNCHANGED <<x, in_x, skips, applied>>

\* x = x.permute(1, 0, 2, 3); in_x = x
Permute ==
    /\ pc = "forward"
    /\ x' = Permute1023(x)
    /\ in_x' = x'
    /\ pc' = "enc1"
    /\ UNCHANGED <<skips, applied, raised, activation, output_logit>>
    /\ UNCHANGED driverVars
    /\ UNCHANGED convertVars

\* x = F.pad(...); conv = self.conv_(x); rel = self._enc_act(self.bn_(conv))
Encoder(s) ==
    /\ pc = "enc" \o Str(s)
    /\ LET st == EncoderStages[s]
           padded == Pad(x, 1, 2, 1, 2)
           c == Conv2dApply(Layer(st.conv), padded)
       IN IF /\ Conv2dOK(Layer(st.conv), padded)
             /\ st.bn # "" => BatchNormOK(Layer(st.bn), c)
          THEN /\ skips' = Append(skips, c)
               /\ x' = c
               /\ applied' = Append(applied,
                      [stage |-> "encoder", i |-> s, inp |-> x, out |-> c,
                       ops |-> <<"pad", "conv">>
                               \o (IF st.bn # "" THEN <<"bn">> ELSE <<>>)
                               \o (IF st.act THEN <<EncAct(activation)>>
                                   ELSE <<>>)])
               /\ pc' = IF s < Len(EncoderStages) THEN "enc" \o Str(s + 1)
                        ELSE "dec1"
               /\ UNCHANGED <<raised, in_x>>
          ELSE ForwardRaise
    /\ UNCHANGED <<activation, output_logit>>
    /\ UNCHANGED driverVars
    /\ UNCHANGED convertVars

\* up = self._dec_act(self.bn_(self.up_(torch.cat([conv_, up], 1))[:, :, 1:-2, 1:-2]))
Decoder(d) ==
    /\ pc = "dec" \o Str(d)
    /\ LET st == DecoderStages[d]
           skip == IF st.skip = 0 THEN <<>> ELSE skips[st.skip]
           inp == IF st.skip = 0 THEN x ELSE Cat(skip, x)
           up == ConvTransposeApply(Layer(st.up), inp)
           c == Crop(up)
       IN IF /\ st.skip # 0 => CatOK(skip, x)
             /\ ConvTransposeOK(Layer(st.up), inp)
             /\ BatchNormOK(Layer(st.bn), c)
          THEN /\ x' = c
               /\ applied' = Append(applied,
                      [stage |-> "decoder", i |-> d, inp |-> inp, out |-> c,
                       ops |-> (IF st.skip # 0 THEN <<"cat">> ELSE <<>>)
                               \o <<"conv_transpose", "crop", "bn">>
                               \o (IF st.act THEN <<DecAct(activation)>>
                                   ELSE <<>>)])
               /\ pc' = IF d < Len(DecoderStages) THEN "dec" \o Str(d + 1)
                        ELSE "head"
               /\ UNCHANGED <<raised, in_x, skips>>
          ELSE ForwardRaise
    /\ UNCHANGED <<activation, output_logit>>
    /\ UNCHANGED driverVars
    /\ UNCHANGED convertVars

\* up7 = self.up7(up6); ans = [torch.sigmoid](up7) * in_x; return ans.permute(1, 0, 2, 3)
OutputHead ==
    /\ pc = "head"
    /\ LET up7 == Conv2dApply(Layer("up7"), x) IN
       IF Conv2dOK(Layer("up7"), x) /\ MulOK(up7, in_x)
       THEN /\ x' = Permute1023(Mul(up7, in_x))
            /\ applied' = Append(applied,
                   [stage |-> "head", i |-> 1, inp |-> x, out |-> up7,
                    ops |-> <<"conv">>
                            \o (IF output_logit THEN <<>> ELSE <<"sigmoid">>)
                            \o <<"mul">>])
            /\ pc' = "returned"
            /\ UNCHANGED <<raised, in_x, skips>>
       ELSE ForwardRaise
    /\ UNCHANGED <<activation, output_logit>>
    /\ UNCHANGED driverVars
    /\ UNCHANGED convertVars

NextForward ==
    \/ Permute
    \/ \E s \in 1..Len(EncoderStages) : Encoder(s)
    \/ \E d \in 1..Len(DecoderStages) : Decoder(d)
    \/ OutputHead

SpecForward == InitForward /\ [][NextForward]_vars

(***************************************************************************)
(* Properties of convert_weights, checked under SpecConvert.               *)
(***************************************************************************)
Called == pc # "convert_weights"

KernelBias == {"/kernel", "/bias"}
NormTensors == {"/gamma", "/beta", "/moving_mean", "/moving_variance"}

\* the name of the op of a kind at local offset j of instrument k
C1_Name(base, k, per, j) ==
    IF k = 0 /\ j = 0 THEN base ELSE base \o "_" \o Str(k * per + j)

C1_Expected(k) ==
    {C1_Name("conv2d", k, 7, i) \o t : i \in 0..6, t \in KernelBias}
    \cup {C1_Name("conv2d_transpose", k, 6, i) \o t : i \in 0..5, t \in KernelBias}
    \cup {C1_Name("batch_normalization", k, 12, j) \o t :
              j \in (0..4) \cup (6..11), t \in NormTensors}

\* C1: for every instrument index k, convert_weights requests exactly the
\* convolutions k*7 + (0..6), the transposed convolutions k*6 + (0..5) and the
\* normalizations k*12 + (0..4, 6..11), never normalization k*12 + 5; the name
\* is the bare base name for k = 0 at local offset 0 and base_<index> otherwise;
\* the first encoder convolution is local offset 0, encoder convolution i is
\* offset i and the output convolution is offset 6.
C1_RequestedNames ==
    Called =>
        /\ Range(requested) \subseteq C1_Expected(idx)
        /\ \A t \in NormTensors :
              C1_Name("batch_normalization", idx, 12, 5) \o t \notin Range(requested)
        /\ pc = "returned" =>
              /\ Range(requested) = C1_Expected(idx)
              /\ unet["conv.weight"].src = C1_Name("conv2d", idx, 7, 0) \o "/kernel"
              /\ unet["bn.weight"].src =
                     C1_Name("batch_normalization", idx, 12, 0) \o "/gamma"
              /\ unet["up7.bias"].src = C1_Name("conv2d", idx, 7, 6) \o "/bias"
              /\ \A i \in 1..5 :
                    unet["conv" \o Str(i) \o ".weight"].src =
                        C1_Name("conv2d", idx, 7, i) \o "/kernel"
              /\ \A i \in 1..4 :
                    unet["bn" \o Str(i) \o ".running_var"].src =
                        C1_Name("batch_normalization", idx, 12, i) \o "/moving_variance"
              /\ \A i \in 0..5 :
                    /\ unet["up" \o Str(i + 1) \o ".weight"].src =
                           C1_Name("conv2d_transpose", idx, 6, i) \o "/kernel"
                    /\ unet["bn" \o Str(5 + i) \o ".bias"].src =
                           C1_Name("batch_normalization", idx, 12, 6 + i) \o "/beta"

C1_Witness ==
    /\ pc = "returned"
    /\ idx = 2
    /\ "batch_normalization_35/gamma" \in Range(requested)
    /\ "conv2d_14/kernel" \in Range(requested)

\* the trainable slots of the network
C3_Slots ==
    {l.name \o t : l \in {m \in Range(Layers) : m.kind # "BatchNorm2d"},
                   t \in {".weight", ".bias"}}
    \cup {l.name \o t : l \in {m \in Range(Layers) : m.kind = "BatchNorm2d"},
                        t \in {".weight", ".bias", ".running_mean", ".running_var"}}

C3_CompleteGraph ==
    /\ disk.fault = NoFault
    /\ Cardinality(DOMAIN graph) = disk.instruments * (7 * 2 + 6 * 2 + 12 * 4)

\* C3: on a frozen graph that holds exactly the N*7 convolutions, N*6
\* transposed convolutions and N*12 normalizations of N instruments,
\* convert_weights returns for every index below N without raising, and every
\* trainable slot (2 per convolution and transposed convolution, 4 per
\* normalization: 70 in all) then holds a tensor of the graph.
C3_AllSlotsAssigned ==
    (Called /\ C3_CompleteGraph /\ idx < disk.instruments) =>
        /\ pc = "returned"
        /\ raised = "none"
        /\ Cardinality(C3_Slots) = 13 * 2 + 11 * 4
        /\ \A key \in C3_Slots :
              /\ unet[key].src # "init"
              /\ unet[key].src \in DOMAIN graph

C3_Witness ==
    /\ pc = "returned"
    /\ C3_CompleteGraph
    /\ disk.instruments = 2
    /\ idx = 1
    /\ unet["up7.weight"].src = "conv2d_13/kernel"

C10_Indexed(base, g) == IF g = 0 THEN base ELSE base \o "_" \o Str(g)

C10_InRange(k) ==
    {C10_Indexed("conv2d", g) \o t :
         g \in (k * 7)..(k * 7 + 6), t \in KernelBias}
    \cup {C10_Indexed("conv2d_transpose", g) \o t :
         g \in (k * 6)..(k * 6 + 5), t \in KernelBias}
    \cup {C10_Indexed("batch_normalization", g) \o t :
         g \in (k * 12)..(k * 12 + 11), t \in NormTensors}

C10_NamesOf(k) == {r.name : r \in Range(Requests(k))}

\* C10: the names convert_weights requests for one instrument are pairwise
\* different (one per layer tensor), none of them is a name it requests for
\* another instrument index, and each lies in the instrument's own index
\* ranges k*7..k*7+6, k*6..k*6+5, k*12..k*12+11.
C10_Injective ==
    Called =>
        /\ Cardinality(Range(requested)) = Len(requested)
        /\ \A k \in 0..MaxInstrumentIdx :
              k # idx => Range(requested) \cap C10_NamesOf(k) = {}
        /\ Range(requested) \subseteq C10_InRange(idx)
        /\ pc = "returned" =>
              \A k1, k2 \in C3_Slots :
                  k1 # k2 => unet[k1].src # unet[k2].src

C10_Witness ==
    /\ pc = "returned"
    /\ idx = 1
    /\ Len(requested) = 70
    /\ "conv2d_7/kernel" \in Range(requested)
    /\ "conv2d_7/kernel" \notin C10_NamesOf(0)

(***************************************************************************)
(* Properties of main, checked under Spec.                                 *)
(***************************************************************************)
NumInstruments == Len(Instruments(model))

Exported(k) == Instruments(model)[k + 1] \in DOMAIN exported

ResolvesAll(k) == \A r \in Range(Requests(k)) : r.name \in DOMAIN graph

\* C2: when a name resolved for instrument k is absent from the frozen graph,
\* get_param raises, the run ends with a non-zero exit status and no
\* instrument with index >= k is exported; an instrument is exported only after
\* all its names were found, and the run exits with status 0 only when the
\* names of every instrument were found.
C2_MissingParameterIsFatal ==
    /\ raised = "ValueError" =>
          /\ pc = "exit"
          /\ exit_status = 1
          /\ requested # <<>>
          /\ requested[Len(requested)] \notin DOMAIN graph
          /\ \A k \in idx..(NumInstruments - 1) : ~Exported(k)
    /\ pc = "export" => ResolvesAll(idx)
    /\ (pc = "loop" /\ idx < NumInstruments /\ ~ResolvesAll(idx)) =>
          \A k \in idx..(NumInstruments - 1) : ~Exported(k)
    /\ exit_status = 0 =>
          /\ pc = "done"
          /\ \A k \in 0..(NumInstruments - 1) : ResolvesAll(k)

\* the graph holds instrument 0 only and instrument 1 is asked for
C2_Witness ==
    /\ raised = "ValueError"
    /\ disk = [instruments |-> 1, fault |-> NoFault]
    /\ idx = 1
    /\ Exported(0)
    /\ exit_status = 1

\* C4 as stated: a shape mismatch while converting instrument k aborts that
\* instrument only and does not terminate the run.
C4_Original ==
    raised = "RuntimeError" => (pc # "crashed" /\ exit_status = -1)

\* C4 as amended: a shape mismatch while converting instrument k is not
\* caught: the run ends there with exit status 1, the instruments before k
\* stay exported, and no instrument with index >= k is converted or exported.
C4_ShapeMismatchIsFatal ==
    raised = "RuntimeError" =>
        /\ pc = "crashed"
        /\ exit_status = 1
        /\ \E r \in Range(Requests(idx)) :
              /\ r.name \in DOMAIN graph
              /\ (IF r.permute /\ Len(graph[r.name]) = 4
                  THEN Permute3201(graph[r.name]) ELSE graph[r.name])
                 # ExpectedShape(r.key)
        /\ \A k \in 0..(idx - 1) : Exported(k)
        /\ \A k \in idx..(NumInstruments - 1) : ~Exported(k)
        /\ log[Len(log)] = Stage("convert", idx)

C4_Witness ==
    /\ raised = "RuntimeError"
    /\ pc = "crashed"
    /\ model = "4stems"
    /\ idx = 1
    /\ disk.instruments = 4
    /\ disk.fault.kind = "shape"

\* C5 as stated: a failure of tracing or serialization while exporting
\* instrument k never stops the run.
C5_Original ==
    raised = "ExportError" => (pc # "crashed" /\ exit_status = -1)

\* C5 as amended: a failure of tracing or serialization while exporting
\* instrument k is not caught: the run ends there with exit status 1 and no
\* instrument with index > k is converted or exported.
C5_ExportFailureIsFatal ==
    raised = "ExportError" =>
        /\ pc = "crashed"
        /\ exit_status = 1
        /\ log[Len(log)] = Stage("export", idx)
        /\ \A k \in (idx + 1)..(NumInstruments - 1) :
              /\ ~Exported(k)
              /\ Stage("convert", k) \notin Range(log)

C5_Witness ==
    /\ raised = "ExportError"
    /\ pc = "crashed"
    /\ model = "5stems"
    /\ idx = 2
    /\ Exported(1)
    /\ ~Exported(3)

C6_Keys ==
    {"model_type", "sample_rate", "version", "stems", "stem_name", "model_name"}

C6_Stems == ("2stems" :> "2") @@ ("4stems" :> "4") @@ ("5stems" :> "5")

C6_Value(key, k) ==
    CASE key = "model_type" -> "spleeter"
      [] key = "sample_rate" -> "44100"
      [] key = "version" -> "1"
      [] key = "stems" -> C6_Stems[model]
      [] key = "stem_name" -> Instruments(model)[k + 1]
      [] key = "model_name" -> model \o ".tar.gz"

C6_Completed(k) == k < idx \/ (k = idx /\ pc = "next")

\* C6: once export_to_onnx has completed for an instrument, the metadata of
\* its file holds the six keys model_type, sample_rate, version, stems,
\* stem_name, model_name, each once and with its documented value, and nothing
\* else, whatever entries the traced graph carried.
C6_ExactMetadata ==
    \A k \in 0..(NumInstruments - 1) :
        (C6_Completed(k) /\ Exported(k)) =>
            LET m == exported[Instruments(model)[k + 1]] IN
            /\ Len(m) = 6
            /\ {m[i].key : i \in 1..Len(m)} = C6_Keys
            /\ \A i \in 1..Len(m) : m[i].value = C6_Value(m[i].key, k)

C6_Witness ==
    /\ pc = "next"
    /\ Len(traced) >= 2
    /\ traced[1].key = "model_type"
    /\ Len(exported[Instruments(model)[idx + 1]]) = 6

C7_Rank(e) ==
    CASE e.stage = "download" -> 1
      [] e.stage = "extract" -> 2
      [] e.stage = "freeze" -> 3
      [] e.stage = "load" -> 4
      [] e.stage = "convert" -> 5 + 2 * e.idx
      [] e.stage = "export" -> 6 + 2 * e.idx

C7_Stages == {log[i].stage : i \in 1..Len(log)}

C7_PastFreeze ==
    \/ pc \in {"load", "loop", "export", "metadata", "next", "done", "exit"}
    \/ pc = "crashed" /\ C7_Stages \cap {"freeze", "load"} # {}

\* C7: the stages run in the order download, extract, freeze, load, then for
\* each instrument in configuration order convert followed by export, and
\* never go back; the download is performed iff the archive was absent at
\* start, the freeze iff the frozen graph file was absent, and the frozen graph
\* is on disk before any instrument's parameter is read.
C7_StageOrder ==
    /\ \A i \in 1..(Len(log) - 1) : C7_Rank(log[i]) < C7_Rank(log[i + 1])
    /\ \A i \in 1..Len(log) :
          /\ log[i].stage = "convert" =>
                /\ i > 1
                /\ log[i - 1] = IF log[i].idx = 0 THEN Stage("load", 0)
                                ELSE Stage("export", log[i].idx - 1)
          /\ log[i].stage = "export" =>
                /\ i > 1
                /\ log[i - 1] = Stage("convert", log[i].idx)
    /\ pc # "acquire" => ("download" \in C7_Stages <=> ~fs.tar0)
    /\ C7_PastFreeze => ("freeze" \in C7_Stages <=> ~fs.frozen0)
    /\ (requested # <<>> \/ graph # NoGraph \/ "load" \in C7_Stages) => fs.frozen
    /\ pc = "done" =>
          \A k \in 0..(NumInstruments - 1) :
              /\ Stage("convert", k) \in Range(log)
              /\ Stage("export", k) \in Range(log)

C7_Witness ==
    /\ pc = "done"
    /\ model = "4stems"
    /\ ~fs.tar0
    /\ ~fs.frozen0
    /\ Len(log) = 12

(***************************************************************************)
(* Properties of UNet.forward, checked under SpecForward.                  *)
(***************************************************************************)
C8_DecoderAct == ("2stems" :> "relu") @@ ("4stems" :> "elu") @@ ("5stems" :> "elu")

C8_NormThenAct(e) ==
    /\ Len(e.ops) >= 2
    /\ e.ops[Len(e.ops) - 1] = "bn"
    /\ e.ops[Len(e.ops)] = C8_DecoderAct[model]

C8_Decoders == {e \in Range(applied) : e.stage = "decoder"}

\* C8 as stated: the first five decoder stages apply normalization and then
\* the decoder activation (elu for 4/5 stems, relu for 2 stems); the sixth
\* applies normalization only.
C8_Original ==
    \A e \in C8_Decoders :
        /\ e.i <= 5 => C8_NormThenAct(e)
        /\ e.i = 6 => e.ops[Len(e.ops)] = "bn"

\* C8 as amended: each of the six decoder stages applies normalization and
\* then the decoder activation (elu for 4/5 stems, relu for 2 stems); the
\* output head reads the activated output of the sixth stage.
C8_EveryDecoderStageActivated ==
    /\ \A e \in C8_Decoders : C8_NormThenAct(e)
    /\ pc = "returned" => {e.i : e \in C8_Decoders} = 1..6

C8_Witness ==
    /\ pc = "returned"
    /\ model = "2stems"
    /\ \E e \in C8_Decoders : e.i = 6 /\ e.ops[Len(e.ops)] = "relu"

RECURSIVE Pow2(_)
Pow2(n) == IF n = 0 THEN 1 ELSE 2 * Pow2(n - 1)

C9_DeclaredIn == <<512, 512, 256, 128, 64, 32>>

C9_FullInput == in_x # <<>> /\ in_x[2] = 2 /\ in_x[3] = 512 /\ in_x[4] = 1024

\* C9: on a 2-channel 512 x 1024 input the forward pass raises nowhere: each
\* encoder stage halves height and width, each decoder stage doubles them, at
\* decoder stages 2..6 the skip tensor and the previous output have the same
\* extent and their channels sum to the declared 512, 256, 128, 64, 32, and
\* the result is a 2-channel 512 x 1024 map.
C9_ShapesClose ==
    C9_FullInput =>
        /\ pc # "raised"
        /\ \A e \in Range(applied) :
              /\ e.stage = "encoder" =>
                    /\ e.inp[3] = 512 \div Pow2(e.i - 1)
                    /\ e.inp[4] = 1024 \div Pow2(e.i - 1)
                    /\ 2 * e.out[3] = e.inp[3]
                    /\ 2 * e.out[4] = e.inp[4]
              /\ e.stage = "decoder" =>
                    /\ e.out[3] = 2 * e.inp[3]
                    /\ e.out[4] = 2 * e.inp[4]
                    /\ e.out[3] = 8 * Pow2(e.i)
                    /\ e.inp[2] = C9_DeclaredIn[e.i]
                    /\ e.i >= 2 =>
                          /\ skips[7 - e.i][3] = e.inp[3]
                          /\ skips[7 - e.i][4] = e.inp[4]
                          /\ 2 * skips[7 - e.i][2] = C9_DeclaredIn[e.i]
              /\ e.stage = "head" =>
                    e.out = <<in_x[1], 2, 512, 1024>>
        /\ pc = "returned" =>
              /\ x = <<2, in_x[1], 512, 1024>>
              /\ Len(applied) = 13

C9_Witness ==
    /\ pc = "returned"
    /\ C9_FullInput
    /\ in_x[1] = 2
    /\ x = <<2, 2, 512, 1024>>

====
